---- MODULE Spec2Model ----
(***************************************************************************)
(* git-ladder: the statistics aggregator (scripts/fetch-stats.js) and the  *)
(* query engine (src/js/DataService.js).                                   *)
(*                                                                         *)
(* JavaScript values are modelled as follows.                              *)
(*   - an object with computed keys (a year series, a months table, the    *)
(*     users object) and a Map are sequences of [k |-> key, v |-> value]   *)
(*     entries in enumeration order;                                       *)
(*   - an object with a fixed shape (a user summary, a bucket, an event)   *)
(*     is a record;                                                        *)
(*   - null / undefined is Null.                                           *)
(***************************************************************************)
EXTENDS Integers, Sequences, FiniteSets, Bags, TLC

VARIABLES
    users,          \* main: const users = new Map()
    pc,             \* where main is: "fetch", "aggregate", "written"
    commits,        \* the lists of the repository being processed
    pullRequests,   \*   (each pull request with its pulls.listReviews response)
    codeReviews,
    ci, pi, ri,     \* aggregateStats: position of each for-of loop
    fetched,        \* number of records the fetch layer has delivered
    output,         \* what main serialises into data/stats.json
    entry,          \* history: users when the current aggregateStats call began
    seen,           \* history: number of usable events aggregated, per kind, login, date
    firstAvatar,    \* history: avatar of the first usable event aggregated, per login
    lastAvatar,     \* history: avatar of the last usable event aggregated, per login
    data,           \* DataService: this.data
    call,           \* the DataService method being called, with its arguments
    result,         \* what the call returns
    isLoaded,       \* DataService: this.isLoaded
    appFilters,     \* App: this.filters
    listeners,      \* the event listeners App has registered
    view,           \* what the page shows
    today,          \* new Date() as the page reads it
    appPc,          \* where App.init is: "constructed", "loading", "ready", "failed"
    last,           \* history: the last event of the page and whether it rendered
    caches,         \* service worker: the CacheStorage of the origin
    puts,           \* service worker: the bag of cache.put calls scheduled and not yet run
    swState,        \* service worker: "parsed", "installed", "activated", "redundant"
    served          \* history: the last fetch event and what respondWith got

fetchVars == <<users, pc, commits, pullRequests, codeReviews, ci, pi, ri, fetched,
               output, entry, seen, firstAvatar, lastAvatar>>

queryVars == <<data, call, result>>
uiVars == <<appFilters, listeners, view, today, appPc, last>>
workerVars == <<caches, puts, swState, served>>

vars == <<fetchVars, queryVars, isLoaded, uiVars, workerVars>>

-----------------------------------------------------------------------------
(* Bounds of the model *)

MaxEvents == 2

MaxDocEvents == 3

MaxPending == 2

-----------------------------------------------------------------------------
(* Values *)

Null == [null |-> TRUE]

Logins == {"alice", "bob"}

\* GitHub user objects as the REST API embeds them in commits, PRs, reviews
Actors ==
    { [login |-> "alice", avatar_url |-> "a1"],
      [login |-> "alice", avatar_url |-> "a2"],
      [login |-> "bob",   avatar_url |-> "b1"] }

\* A Date, as read by getFullYear() and getMonth() (0 = January)
Dates ==
    { [year |-> 2023, month |-> 2],
      [year |-> 2024, month |-> 2],
      [year |-> 2024, month |-> 9] }

SomeDate == [year |-> 2024, month |-> 2]

\* Commits as repos.listCommits returns them: author is null when GitHub cannot
\* resolve the author (the date of such a commit is never read)
CommitEvents ==
    [author : Actors, date : Dates] \cup {[author |-> Null, date |-> SomeDate]}

\* Pull requests as pulls.list returns them, before their reviews are listed
PullRequestEvents ==
    [user : Actors, created_at : Dates, reviews : {<<>>}]
        \cup {[user |-> Null, created_at |-> SomeDate, reviews |-> <<>>]}

\* One element of a pulls.listReviews response: a submitted review, a pending
\* review (not submitted yet: no submitted_at), a review whose user is gone
RawReviews ==
    [user : Actors, state : {"APPROVED"}, submitted_at : Dates]
        \cup [user : Actors, state : {"PENDING"}, submitted_at : {Null}]
        \cup {[user |-> Null, state |-> "APPROVED", submitted_at |-> SomeDate]}

MetricKinds == {"commits", "pullRequests", "codeReviews"}

-----------------------------------------------------------------------------
(* Strings *)

Digits == {"0", "1", "2", "3", "4", "5", "6", "7", "8", "9"}

DigitValue(c) ==
    CASE c = "0" -> 0 [] c = "1" -> 1 [] c = "2" -> 2 [] c = "3" -> 3
      [] c = "4" -> 4 [] c = "5" -> 5 [] c = "6" -> 6 [] c = "7" -> 7
      [] c = "8" -> 8 [] c = "9" -> 9

RECURSIVE StrToNat(_)
StrToNat(s) ==
    IF Len(s) = 0 THEN 0
    ELSE 10 * StrToNat(SubSeq(s, 1, Len(s) - 1)) + DigitValue(SubSeq(s, Len(s), Len(s)))

\* String.prototype.padStart with a one-character fill string
RECURSIVE PadStart(_, _, _)
PadStart(s, n, fill) ==
    IF Len(s) >= n THEN s ELSE PadStart(fill \o s, n, fill)

\* An ECMAScript array index: a canonical numeric string (keys of ten or more
\* digits do not occur in the model)
IsArrayIndex(s) ==
    /\ Len(s) > 0
    /\ Len(s) < 10
    /\ \A i \in 1..Len(s) : SubSeq(s, i, i) \in Digits
    /\ (Len(s) = 1 \/ SubSeq(s, 1, 1) # "0")

-----------------------------------------------------------------------------
(* Objects and Maps *)

ObjHas(o, k) == \E i \in 1..Len(o) : o[i].k = k

ObjIdx(o, k) == CHOOSE i \in 1..Len(o) : o[i].k = k

ObjGet(o, k) == o[ObjIdx(o, k)].v

ObjKeys(o) == [i \in 1..Len(o) |-> o[i].k]

ObjValues(o) == [i \in 1..Len(o) |-> o[i].v]

\* o[k] = v. A new array-index key is enumerated in ascending numeric order
\* before every string key; a new string key is enumerated last.
ObjSet(o, k, v) ==
    IF ObjHas(o, k) THEN [o EXCEPT ![ObjIdx(o, k)].v = v]
    ELSE IF IsArrayIndex(k)
         THEN LET pos == Cardinality({i \in 1..Len(o) :
                             IsArrayIndex(o[i].k) /\ StrToNat(o[i].k) < StrToNat(k)})
              IN  SubSeq(o, 1, pos) \o <<[k |-> k, v |-> v]>> \o SubSeq(o, pos + 1, Len(o))
         ELSE Append(o, [k |-> k, v |-> v])

\* Map.prototype.set: a new key is enumerated last, whatever it looks like
MapSet(m, k, v) ==
    IF ObjHas(m, k) THEN [m EXCEPT ![ObjIdx(m, k)].v = v]
    ELSE Append(m, [k |-> k, v |-> v])

-----------------------------------------------------------------------------
(* scripts/fetch-stats.js: aggregateStats *)

YearKey(date) == ToString(date.year)

\* MonthKey without the + 1 that getMonth() needs
MonthKeyZeroBased(date) == PadStart(ToString(date.month), 2, "0")

MonthKey(date) == PadStart(ToString(date.month + 1), 2, "0")

\* NewUser as it was before code reviews were tracked
NewUserWithoutReviews(avatar) ==
    [avatar |-> avatar, commits |-> <<>>, pullRequests |-> <<>>]

NewUser(avatar) ==
    [avatar |-> avatar, commits |-> <<>>, pullRequests |-> <<>>, codeReviews |-> <<>>]

\* CountInto with the month counter re-initialised on every event
CountIntoResetMonth(series, year, month) ==
    LET s1 == IF ~ObjHas(series, year)
              THEN ObjSet(series, year, [total |-> 0, months |-> <<>>])
              ELSE series
        b1 == ObjGet(s1, year)
        m1 == ObjSet(b1.months, month, 0)
        b2 == [total |-> b1.total + 1,
               months |-> ObjSet(m1, month, ObjGet(m1, month) + 1)]
    IN  ObjSet(s1, year, b2)

\* "Initialize year if needed", then total++ and months[month]++
CountInto(series, year, month) ==
    LET s1 == IF ~ObjHas(series, year)
              THEN ObjSet(series, year, [total |-> 0, months |-> <<>>])
              ELSE series
        b1 == ObjGet(s1, year)
        m1 == IF ~ObjHas(b1.months, month) \/ ObjGet(b1.months, month) = 0
              THEN ObjSet(b1.months, month, 0)
              ELSE b1.months
        b2 == [total |-> b1.total + 1,
               months |-> ObjSet(m1, month, ObjGet(m1, month) + 1)]
    IN  ObjSet(s1, year, b2)

\* EnsureUser without the users.has test
EnsureUserAlwaysSet(us, actor) ==
    MapSet(us, actor.login, NewUser(actor.avatar_url))

\* EnsureUser that also stores the avatar of the event on a user it already has
EnsureUserRefreshAvatar(us, actor) ==
    IF ~ObjHas(us, actor.login) THEN MapSet(us, actor.login, NewUser(actor.avatar_url))
    ELSE MapSet(us, actor.login, [ObjGet(us, actor.login) EXCEPT !.avatar = actor.avatar_url])

\* if (!users.has(login)) users.set(login, {...})
EnsureUser(us, actor) ==
    IF ~ObjHas(us, actor.login) THEN MapSet(us, actor.login, NewUser(actor.avatar_url))
    ELSE us

\* AggCommit that counts a commit without author under a placeholder login
AggCommitAnonymous(us, commit) ==
    LET author == IF commit.author = Null
                  THEN [login |-> "unknown", avatar_url |-> ""]
                  ELSE commit.author
        u1     == EnsureUser(us, author)
        user   == ObjGet(u1, author.login)
    IN  MapSet(u1, author.login,
               [user EXCEPT !.commits =
                   CountInto(@, YearKey(commit.date), MonthKey(commit.date))])

\* One iteration of "for (const commit of commits)"
AggCommit(us, commit) ==
    IF commit.author = Null THEN us
    ELSE LET u1   == EnsureUser(us, commit.author)
             user == ObjGet(u1, commit.author.login)
         IN  MapSet(u1, commit.author.login,
                    [user EXCEPT !.commits =
                        CountInto(@, YearKey(commit.date), MonthKey(commit.date))])

\* AggPullRequest that sets a fresh user summary without the users.has test
AggPullRequestAlwaysSet(us, pr) ==
    IF pr.user = Null THEN us
    ELSE LET u1   == MapSet(us, pr.user.login, NewUser(pr.user.avatar_url))
             user == ObjGet(u1, pr.user.login)
         IN  MapSet(u1, pr.user.login,
                    [user EXCEPT !.pullRequests =
                        CountInto(@, YearKey(pr.created_at), MonthKey(pr.created_at))])

\* One iteration of "for (const pr of pullRequests)"
AggPullRequest(us, pr) ==
    IF pr.user = Null THEN us
    ELSE LET u1   == EnsureUser(us, pr.user)
             user == ObjGet(u1, pr.user.login)
         IN  MapSet(u1, pr.user.login,
                    [user EXCEPT !.pullRequests =
                        CountInto(@, YearKey(pr.created_at), MonthKey(pr.created_at))])

\* One iteration of "for (const review of codeReviews)"
AggReview(us, review) ==
    IF review.user = Null THEN us
    ELSE LET u1   == EnsureUser(us, review.user)
             u    == ObjGet(u1, review.user.login)
             \* if (!user.codeReviews) user.codeReviews = {}
             user == IF "codeReviews" \in DOMAIN u THEN u
                     ELSE [f \in DOMAIN u \cup {"codeReviews"} |->
                              IF f = "codeReviews" THEN <<>> ELSE u[f]]
         IN  MapSet(u1, review.user.login,
                    [user EXCEPT !.codeReviews =
                        CountInto(@, YearKey(review.submitted_at),
                                     MonthKey(review.submitted_at))])

RECURSIVE FoldCommits(_, _)
FoldCommits(us, cs) ==
    IF cs = <<>> THEN us ELSE FoldCommits(AggCommit(us, Head(cs)), Tail(cs))

RECURSIVE FoldPullRequests(_, _)
FoldPullRequests(us, ps) ==
    IF ps = <<>> THEN us ELSE FoldPullRequests(AggPullRequest(us, Head(ps)), Tail(ps))

RECURSIVE FoldReviews(_, _)
FoldReviews(us, rs) ==
    IF rs = <<>> THEN us ELSE FoldReviews(AggReview(us, Head(rs)), Tail(rs))

aggregateStats(us, cs, ps, rs) ==
    FoldReviews(FoldPullRequests(FoldCommits(us, cs), ps), rs)

-----------------------------------------------------------------------------
(* scripts/fetch-stats.js: fetchReviews *)

\* KeptReviews without the comparison with the author of the pull request
RECURSIVE KeptReviewsWithSelf(_, _)
KeptReviewsWithSelf(pr, rs) ==
    IF rs = <<>> THEN <<>>
    ELSE LET review == Head(rs)
             skip == \/ review.user = Null
                     \/ review.state = "PENDING"
         IN  (IF skip THEN <<>>
              ELSE <<[user |-> review.user, submitted_at |-> review.submitted_at]>>)
             \o KeptReviewsWithSelf(pr, Tail(rs))

\* The reviews of one pull request that are kept. rs is the pulls.listReviews
\* response for pr (a failed request pushes nothing, like an empty response).
\* pr.user?.login is undefined, and equal to no login, when pr.user is null.
RECURSIVE KeptReviews(_, _)
KeptReviews(pr, rs) ==
    IF rs = <<>> THEN <<>>
    ELSE LET review == Head(rs)
             skip == \/ review.user = Null
                     \/ (pr.user # Null /\ review.user.login = pr.user.login)
                     \/ review.state = "PENDING"
         IN  (IF skip THEN <<>>
              ELSE <<[user |-> review.user, submitted_at |-> review.submitted_at]>>)
             \o KeptReviews(pr, Tail(rs))

RECURSIVE fetchReviews(_)
fetchReviews(prs) ==
    IF prs = <<>> THEN <<>>
    ELSE KeptReviews(Head(prs), Head(prs).reviews) \o fetchReviews(Tail(prs))

-----------------------------------------------------------------------------
(* scripts/fetch-stats.js: main *)

EmptyMap == <<>>

\* for (const [login, data] of users) usersObject[login] = data
RECURSIVE UsersObject(_)
UsersObject(us) ==
    IF us = <<>> THEN <<>>
    ELSE LET front == UsersObject(SubSeq(us, 1, Len(us) - 1))
         IN  ObjSet(front, us[Len(us)].k, us[Len(us)].v)

NoAvatar == [l \in Logins |-> ""]

\* History of one loop iteration over an event whose user object is actor
Record(kind, actor, date) ==
    IF actor = Null
    THEN UNCHANGED <<seen, firstAvatar, lastAvatar>>
    ELSE /\ seen' = [seen EXCEPT ![kind][actor.login][date] = @ + 1]
         /\ firstAvatar' = IF firstAvatar[actor.login] = ""
                           THEN [firstAvatar EXCEPT ![actor.login] = actor.avatar_url]
                           ELSE firstAvatar
         /\ lastAvatar' = [lastAvatar EXCEPT ![actor.login] = actor.avatar_url]

\* App constructor: this.filters
DefaultFilters ==
    [year |-> "all", month |-> "all", metric |-> "pullRequests",
     excludedUsers |-> <<"dependabot[bot]">>]

\* The page before App.init has touched it: the year select has the option
\* 'all' only, nothing is drawn
BlankView ==
    [usersGrid    |-> "",
     cards        |-> <<>>,
     chart        |-> <<>>,
     trendSection |-> "",
     chips        |-> <<>>,
     kpis         |-> Null,
     yearOptions  |-> <<"all">>,
     yearSelect   |-> "all",
     monthSelect  |-> "all",
     activeToggle |-> "pullRequests"]

NoEvent == [event |-> "", arg |-> "", rendered |-> FALSE]

\* sw.js
CACHE_NAME == "git-ladder-v1"

\* What an earlier version of the worker left in the CacheStorage
EarlierCaches ==
    <<[k |-> "git-ladder-v0",
       v |-> <<[k |-> "./index.html",
                v |-> [status |-> 200, type |-> "basic", body |-> "v0"]]>>]>>

Init ==
    /\ users = EmptyMap
    /\ pc = "fetch"
    /\ commits = <<>>
    /\ pullRequests = <<>>
    /\ codeReviews = <<>>
    /\ ci = 1 /\ pi = 1 /\ ri = 1
    /\ fetched = 0
    /\ output = Null
    /\ entry = EmptyMap
    /\ seen = [k \in MetricKinds |-> [l \in Logins |-> [d \in Dates |-> 0]]]
    /\ firstAvatar = NoAvatar
    /\ lastAvatar = NoAvatar
    /\ data = Null
    /\ call = Null
    /\ result = Null
    /\ isLoaded = FALSE
    /\ appFilters = DefaultFilters
    /\ listeners = {}
    /\ view = BlankView
    /\ today = Null
    /\ appPc = "constructed"
    /\ last = NoEvent
    /\ caches = EarlierCaches
    /\ puts = EmptyBag
    /\ swState = "parsed"
    /\ served = Null

\* fetchCommits delivers one more commit of the repository
FetchCommit(c) ==
    /\ pc = "fetch"
    /\ fetched < MaxEvents
    /\ commits' = Append(commits, c)
    /\ fetched' = fetched + 1
    /\ UNCHANGED <<users, pc, pullRequests, codeReviews, ci, pi, ri, output,
                   entry, seen, firstAvatar, lastAvatar>>
    /\ UNCHANGED <<queryVars, isLoaded, uiVars, workerVars>>

\* fetchPullRequests delivers one more pull request of the repository
FetchPullRequest(pr) ==
    /\ pc = "fetch"
    /\ fetched < MaxEvents
    /\ pullRequests' = Append(pullRequests, pr)
    /\ fetched' = fetched + 1
    /\ UNCHANGED <<users, pc, commits, codeReviews, ci, pi, ri, output,
                   entry, seen, firstAvatar, lastAvatar>>
    /\ UNCHANGED <<queryVars, isLoaded, uiVars, workerVars>>

\* pulls.listReviews has one more review of the latest pull request
ListReview(r) ==
    /\ pc = "fetch"
    /\ fetched < MaxEvents
    /\ pullRequests # <<>>
    /\ pullRequests' = [pullRequests EXCEPT ![Len(pullRequests)].reviews = Append(@, r)]
    /\ fetched' = fetched + 1
    /\ UNCHANGED <<users, pc, commits, codeReviews, ci, pi, ri, output,
                   entry, seen, firstAvatar, lastAvatar>>
    /\ UNCHANGED <<queryVars, isLoaded, uiVars, workerVars>>

\* const codeReviews = await fetchReviews(...); aggregateStats(users, ...) is entered
CallAggregateStats ==
    /\ pc = "fetch"
    /\ commits # <<>> \/ pullRequests # <<>>
    /\ codeReviews' = fetchReviews(pullRequests)
    /\ pc' = "aggregate"
    /\ ci' = 1 /\ pi' = 1 /\ ri' = 1
    /\ entry' = users
    /\ UNCHANGED <<users, commits, pullRequests, fetched, output,
                   seen, firstAvatar, lastAvatar>>
    /\ UNCHANGED <<queryVars, isLoaded, uiVars, workerVars>>

StepCommit ==
    /\ pc = "aggregate"
    /\ ci <= Len(commits)
    /\ users' = AggCommit(users, commits[ci])
    /\ ci' = ci + 1
    /\ Record("commits", commits[ci].author, commits[ci].date)
    /\ UNCHANGED <<pc, commits, pullRequests, codeReviews, pi, ri, fetched, output, entry>>
    /\ UNCHANGED <<queryVars, isLoaded, uiVars, workerVars>>

StepPullRequest ==
    /\ pc = "aggregate"
    /\ ci > Len(commits)
    /\ pi <= Len(pullRequests)
    /\ users' = AggPullRequest(users, pullRequests[pi])
    /\ pi' = pi + 1
    /\ Record("pullRequests", pullRequests[pi].user, pullRequests[pi].created_at)
    /\ UNCHANGED <<pc, commits, pullRequests, codeReviews, ci, ri, fetched, output, entry>>
    /\ UNCHANGED <<queryVars, isLoaded, uiVars, workerVars>>

StepReview ==
    /\ pc = "aggregate"
    /\ ci > Len(commits)
    /\ pi > Len(pullRequests)
    /\ ri <= Len(codeReviews)
    /\ users' = AggReview(users, codeReviews[ri])
    /\ ri' = ri + 1
    /\ Record("codeReviews", codeReviews[ri].user, codeReviews[ri].submitted_at)
    /\ UNCHANGED <<pc, commits, pullRequests, codeReviews, ci, pi, fetched, output, entry>>
    /\ UNCHANGED <<queryVars, isLoaded, uiVars, workerVars>>

Returning ==
    /\ pc = "aggregate"
    /\ ci > Len(commits)
    /\ pi > Len(pullRequests)
    /\ ri > Len(codeReviews)

\* aggregateStats returns; main goes on to the next repository
Return ==
    /\ Returning
    /\ pc' = "fetch"
    /\ commits' = <<>>
    /\ pullRequests' = <<>>
    /\ codeReviews' = <<>>
    /\ ci' = 1 /\ pi' = 1 /\ ri' = 1
    /\ entry' = users
    /\ UNCHANGED <<users, fetched, output, seen, firstAvatar, lastAvatar>>
    /\ UNCHANGED <<queryVars, isLoaded, uiVars, workerVars>>

\* Every organization and repository is done: build and write the output
WriteOutput ==
    /\ pc = "fetch"
    /\ commits = <<>>
    /\ pullRequests = <<>>
    /\ output' = [users |-> UsersObject(users)]
    /\ pc' = "written"
    /\ UNCHANGED <<users, commits, pullRequests, codeReviews, ci, pi, ri, fetched,
                   entry, seen, firstAvatar, lastAvatar>>
    /\ UNCHANGED <<queryVars, isLoaded, uiVars, workerVars>>

Next ==
    \/ \E c \in CommitEvents : FetchCommit(c)
    \/ \E pr \in PullRequestEvents : FetchPullRequest(pr)
    \/ \E r \in RawReviews : ListReview(r)
    \/ CallAggregateStats
    \/ StepCommit
    \/ StepPullRequest
    \/ StepReview
    \/ Return
    \/ WriteOutput

Spec == Init /\ [][Next]_vars

-----------------------------------------------------------------------------
(* src/js/DataService.js *)

\* A lookup that falls back on the commits series
MetricDataOrCommits(userData, metric) ==
    IF metric \in DOMAIN userData THEN userData[metric] ELSE userData.commits

\* userData[metric] || {}
MetricData(userData, metric) ==
    IF metric \in DOMAIN userData THEN userData[metric] ELSE <<>>

\* yearData.total || 0
TotalOrZero(yearData) ==
    IF "total" \in DOMAIN yearData THEN yearData.total ELSE 0

\* yearData.months?.[month] || 0
MonthOrZero(yearData, month) ==
    IF "months" \in DOMAIN yearData /\ ObjHas(yearData.months, month)
    THEN ObjGet(yearData.months, month)
    ELSE 0

\* for (const yearData of Object.values(metricData)) total += ...
RECURSIVE SumAllYears(_, _)
SumAllYears(yearDatas, month) ==
    IF yearDatas = <<>> THEN 0
    ELSE (IF month = "all" THEN TotalOrZero(Head(yearDatas))
          ELSE MonthOrZero(Head(yearDatas), month))
         + SumAllYears(Tail(yearDatas), month)

\* A period total that reads the bucket total whatever the month
PeriodTotalIgnoringMonth(metricData, year, month) ==
    IF year = "all" THEN SumAllYears(ObjValues(metricData), "all")
    ELSE IF ObjHas(metricData, year)
         THEN TotalOrZero(ObjGet(metricData, year))
         ELSE 0

\* getUserStats: let total = 0; if (year === 'all') {...} else {...}
PeriodTotal(metricData, year, month) ==
    IF year = "all" THEN SumAllYears(ObjValues(metricData), month)
    ELSE IF ObjHas(metricData, year)
         THEN (IF month = "all" THEN TotalOrZero(ObjGet(metricData, year))
               ELSE MonthOrZero(ObjGet(metricData, year), month))
         ELSE 0

getMetricValue(userData, metric, year, month) ==
    IF year = "all" THEN SumAllYears(ObjValues(MetricData(userData, metric)), month)
    ELSE IF ObjHas(MetricData(userData, metric), year)
         THEN (IF month = "all" THEN TotalOrZero(ObjGet(MetricData(userData, metric), year))
               ELSE MonthOrZero(ObjGet(MetricData(userData, metric), year), month))
         ELSE 0

Includes(array, x) == \E i \in 1..Len(array) : array[i] = x

\* results.sort((a, b) => b.value - a.value): Array.prototype.sort is stable
\* An insertion that puts a row before the rows of equal value
RECURSIVE InsertBeforeEqual(_, _)
InsertBeforeEqual(sorted, row) ==
    IF sorted = <<>> THEN <<row>>
    ELSE IF Head(sorted).value > row.value
         THEN <<Head(sorted)>> \o InsertBeforeEqual(Tail(sorted), row)
         ELSE <<row>> \o sorted

RECURSIVE InsertByValue(_, _)
InsertByValue(sorted, row) ==
    IF sorted = <<>> THEN <<row>>
    ELSE IF Head(sorted).value >= row.value
         THEN <<Head(sorted)>> \o InsertByValue(Tail(sorted), row)
         ELSE <<row>> \o sorted

RECURSIVE SortByValue(_)
SortByValue(rows) ==
    IF rows = <<>> THEN <<>>
    ELSE InsertByValue(SortByValue(SubSeq(rows, 1, Len(rows) - 1)), rows[Len(rows)])

\* A loop body that pushes a row whatever the total
RECURSIVE PushRowsKeepZero(_, _)
PushRowsKeepZero(entries, filters) ==
    IF entries = <<>> THEN <<>>
    ELSE LET username == Head(entries).k
             userData == Head(entries).v
             total    == PeriodTotal(MetricData(userData, filters.metric),
                                     filters.year, filters.month)
         IN  (IF ~Includes(filters.excludedUsers, username)
              THEN <<[username     |-> username,
                      avatar       |-> userData.avatar,
                      value        |-> total,
                      commits      |-> getMetricValue(userData, "commits",
                                                      filters.year, filters.month),
                      pullRequests |-> getMetricValue(userData, "pullRequests",
                                                      filters.year, filters.month)]>>
              ELSE <<>>)
             \o PushRowsKeepZero(Tail(entries), filters)

\* A loop body that does not look at excludedUsers
RECURSIVE PushRowsKeepExcluded(_, _)
PushRowsKeepExcluded(entries, filters) ==
    IF entries = <<>> THEN <<>>
    ELSE LET username == Head(entries).k
             userData == Head(entries).v
             total    == PeriodTotal(MetricData(userData, filters.metric),
                                     filters.year, filters.month)
         IN  (IF total > 0
              THEN <<[username     |-> username,
                      avatar       |-> userData.avatar,
                      value        |-> total,
                      commits      |-> getMetricValue(userData, "commits",
                                                      filters.year, filters.month),
                      pullRequests |-> getMetricValue(userData, "pullRequests",
                                                      filters.year, filters.month)]>>
              ELSE <<>>)
             \o PushRowsKeepExcluded(Tail(entries), filters)

\* The body of "for (const [username, userData] of Object.entries(...))"
RECURSIVE PushRows(_, _)
PushRows(entries, filters) ==
    IF entries = <<>> THEN <<>>
    ELSE LET username == Head(entries).k
             userData == Head(entries).v
             total    == PeriodTotal(MetricData(userData, filters.metric),
                                     filters.year, filters.month)
         IN  (IF ~Includes(filters.excludedUsers, username) /\ total > 0
              THEN <<[username     |-> username,
                      avatar       |-> userData.avatar,
                      value        |-> total,
                      commits      |-> getMetricValue(userData, "commits",
                                                      filters.year, filters.month),
                      pullRequests |-> getMetricValue(userData, "pullRequests",
                                                      filters.year, filters.month)]>>
              ELSE <<>>)
             \o PushRows(Tail(entries), filters)

getUserStats(d, filters) ==
    IF d = Null THEN <<>> ELSE SortByValue(PushRows(d.users, filters))

\* stats.reduce((acc, user) => {...}, { commits: 0, pullRequests: 0, contributors: 0 })
RECURSIVE ReduceStats(_, _)
ReduceStats(acc, stats) ==
    IF stats = <<>> THEN acc
    ELSE ReduceStats([commits      |-> acc.commits + Head(stats).commits,
                      pullRequests |-> acc.pullRequests + Head(stats).pullRequests,
                      contributors |-> acc.contributors + 1],
                     Tail(stats))

getAggregatedStats(d, filters) ==
    ReduceStats([commits |-> 0, pullRequests |-> 0, contributors |-> 0],
                getUserStats(d, filters))

\* The default comparison of Array.prototype.sort, on strings of digits: code
\* unit by code unit, a proper prefix first
RECURSIVE StrLess(_, _)
StrLess(a, b) ==
    IF Len(b) = 0 THEN FALSE
    ELSE IF Len(a) = 0 THEN TRUE
    ELSE IF SubSeq(a, 1, 1) = SubSeq(b, 1, 1)
         THEN StrLess(SubSeq(a, 2, Len(a)), SubSeq(b, 2, Len(b)))
         ELSE DigitValue(SubSeq(a, 1, 1)) < DigitValue(SubSeq(b, 1, 1))

RECURSIVE InsertString(_, _)
InsertString(sorted, x) ==
    IF sorted = <<>> THEN <<x>>
    ELSE IF StrLess(x, Head(sorted)) THEN <<x>> \o sorted
    ELSE <<Head(sorted)>> \o InsertString(Tail(sorted), x)

\* array.sort() without a comparator
RECURSIVE SortStrings(_)
SortStrings(array) ==
    IF array = <<>> THEN <<>>
    ELSE InsertString(SortStrings(SubSeq(array, 1, Len(array) - 1)), array[Len(array)])

\* array.reverse()
Reverse(array) == [i \in 1..Len(array) |-> array[Len(array) + 1 - i]]

\* A collection that keeps every key it is given, like an array
AddAllAsArray(years, keys) == years \o keys

\* keys.forEach(year => years.add(year)): a Set keeps the first insertion
RECURSIVE AddAll(_, _)
AddAll(years, keys) ==
    IF keys = <<>> THEN years
    ELSE AddAll(IF Includes(years, Head(keys)) THEN years ELSE Append(years, Head(keys)),
                Tail(keys))

\* Object.values(this.data.users).forEach(user => {...})
RECURSIVE CollectYears(_, _)
CollectYears(years, userDatas) ==
    IF userDatas = <<>> THEN years
    ELSE CollectYears(AddAll(AddAll(years, ObjKeys(MetricData(Head(userDatas), "commits"))),
                             ObjKeys(MetricData(Head(userDatas), "pullRequests"))),
                      Tail(userDatas))

getAvailableYears(d) ==
    IF d = Null THEN <<>>
    ELSE Reverse(SortStrings(CollectYears(<<>>, ObjValues(d.users))))

\* Object.keys(this.data.users).sort(): the usernames of the model are lower
\* case letters, which the default comparison orders alphabetically
LetterValue(c) ==
    CASE c = "a" -> 1 [] c = "b" -> 2 [] c = "c" -> 3 [] c = "e" -> 5
      [] c = "i" -> 9 [] c = "l" -> 12 [] c = "o" -> 15

RECURSIVE NameLess(_, _)
NameLess(a, b) ==
    IF Len(b) = 0 THEN FALSE
    ELSE IF Len(a) = 0 THEN TRUE
    ELSE IF SubSeq(a, 1, 1) = SubSeq(b, 1, 1)
         THEN NameLess(SubSeq(a, 2, Len(a)), SubSeq(b, 2, Len(b)))
         ELSE LetterValue(SubSeq(a, 1, 1)) < LetterValue(SubSeq(b, 1, 1))

RECURSIVE InsertName(_, _)
InsertName(sorted, x) ==
    IF sorted = <<>> THEN <<x>>
    ELSE IF NameLess(x, Head(sorted)) THEN <<x>> \o sorted
    ELSE <<Head(sorted)>> \o InsertName(Tail(sorted), x)

RECURSIVE SortNames(_)
SortNames(array) ==
    IF array = <<>> THEN <<>>
    ELSE InsertName(SortNames(SubSeq(array, 1, Len(array) - 1)), array[Len(array)])

getAllUsernames(d) ==
    IF d = Null THEN <<>> ELSE SortNames(ObjKeys(d.users))

\* array.slice(0, end)
SliceTo(array, end) ==
    SubSeq(array, 1, IF end < Len(array) THEN end ELSE Len(array))

\* A selection of top users that keeps every row
TopUsersUnsliced(d, args) ==
    getUserStats(d, [year |-> args.year, month |-> "all", metric |-> args.metric,
                     excludedUsers |-> args.excludedUsers])

\* getTrendData: const topUsers = this.getUserStats({...}).slice(0, topN)
TopUsers(d, args) ==
    SliceTo(getUserStats(d, [year |-> args.year, month |-> "all", metric |-> args.metric,
                             excludedUsers |-> args.excludedUsers]),
            args.topN)

\* Years left in the order getAvailableYears returns them
ChartYearsUnsorted(d) == getAvailableYears(d)

\* getTrendData: const years = this.getAvailableYears().sort()
ChartYears(d) == SortStrings(getAvailableYears(d))

\* metricData[y]?.total || 0
YearPoint(metricData, y) ==
    IF ObjHas(metricData, y) THEN TotalOrZero(ObjGet(metricData, y)) ELSE 0

MonthKeys ==
    <<"01", "02", "03", "04", "05", "06", "07", "08", "09", "10", "11", "12">>

MonthNames ==
    <<"Jan", "Feb", "Mar", "Apr", "May", "Jun", "Jul", "Aug", "Sep", "Oct", "Nov", "Dec">>

\* A truncation that leaves the current month out
ShownMonthsBeforeCurrent(year, now) ==
    IF year = ToString(now.year) THEN now.month ELSE Len(MonthKeys)

\* getTrendData: the number of months kept, all of them unless year is the
\* current year: slice(0, currentMonthIndex + 1)
ShownMonths(year, now) ==
    IF year = ToString(now.year)
    THEN (IF now.month + 1 < Len(MonthKeys) THEN now.month + 1 ELSE Len(MonthKeys))
    ELSE Len(MonthKeys)

\* userData[metric]?.[year]?.months || {}
MonthsOfYear(userData, metric, year) ==
    IF metric \in DOMAIN userData /\ ObjHas(userData[metric], year)
       /\ "months" \in DOMAIN ObjGet(userData[metric], year)
    THEN ObjGet(userData[metric], year).months
    ELSE <<>>

\* metricData[m] || 0
MonthPoint(metricData, m) ==
    IF ObjHas(metricData, m) THEN ObjGet(metricData, m) ELSE 0

\* The chart styling of a dataset (borderColor, backgroundColor, tension, fill)
\* is left out
getTrendData(d, args, now) ==
    IF d = Null THEN Null
    ELSE LET topUsers == TopUsers(d, args)
         IN  IF args.year = "all"
             THEN LET years == ChartYears(d)
                      Dataset(user) ==
                          LET metricData == MetricData(ObjGet(d.users, user.username),
                                                       args.metric)
                          IN  [label |-> user.username,
                               data  |-> [i \in 1..Len(years) |->
                                             YearPoint(metricData, years[i])]]
                  IN  [labels   |-> years,
                       datasets |-> [u \in 1..Len(topUsers) |-> Dataset(topUsers[u])]]
             ELSE LET shown == ShownMonths(args.year, now)
                      Dataset(user) ==
                          LET metricData == MonthsOfYear(ObjGet(d.users, user.username),
                                                         args.metric, args.year)
                          IN  [label |-> user.username,
                               data  |-> [i \in 1..shown |->
                                             MonthPoint(metricData, MonthKeys[i])]]
                  IN  [labels   |-> SubSeq(MonthNames, 1, shown),
                       datasets |-> [u \in 1..Len(topUsers) |-> Dataset(topUsers[u])]]

-----------------------------------------------------------------------------
(* The page: it is served a document the fetch script wrote, and queries it *)

DocActors ==
    { [login |-> "alice", avatar_url |-> "a1"],
      [login |-> "bob",   avatar_url |-> "b1"] }

DocEvents == [kind : MetricKinds, actor : DocActors, date : Dates]

\* aggregateStats called for one repository after the other with these events
RECURSIVE FoldEvents(_, _)
FoldEvents(us, es) ==
    IF es = <<>> THEN us
    ELSE LET e  == Head(es)
             u1 == CASE e.kind = "commits" ->
                           aggregateStats(us, <<[author |-> e.actor, date |-> e.date]>>,
                                          <<>>, <<>>)
                      [] e.kind = "pullRequests" ->
                           aggregateStats(us, <<>>,
                                          <<[user |-> e.actor, created_at |-> e.date]>>, <<>>)
                      [] e.kind = "codeReviews" ->
                           aggregateStats(us, <<>>, <<>>,
                                          <<[user |-> e.actor, submitted_at |-> e.date]>>)
         IN  FoldEvents(u1, Tail(es))

\* The accumulators main can hold after at most n such events
RECURSIVE MapsAfter(_)
MapsAfter(n) ==
    IF n = 0 THEN {EmptyMap}
    ELSE LET prev == MapsAfter(n - 1)
         IN  prev \cup {FoldEvents(us, <<e>>) : us \in prev, e \in DocEvents}

\* What main writes from them
Documents == {[users |-> UsersObject(us)] : us \in MapsAfter(MaxDocEvents)}

Filters ==
    [year : {"all", "2023", "2024"}, month : {"all", "03", "10"},
     metric : MetricKinds, excludedUsers : {<<>>, <<"alice">>}]

\* loadData: this.data = await response.json()
LoadData ==
    /\ data = Null
    /\ call = Null
    /\ \E document \in Documents : data' = document
    /\ isLoaded' = TRUE
    /\ UNCHANGED <<call, result, fetchVars, uiVars, workerVars>>

CallGetUserStats(filters) ==
    /\ call = Null
    /\ call' = [method |-> "getUserStats", filters |-> filters]
    /\ result' = getUserStats(data, filters)
    /\ UNCHANGED <<data, isLoaded, fetchVars, uiVars, workerVars>>

\* The caller is done with the returned value
Discard ==
    /\ call # Null
    /\ call' = Null
    /\ result' = Null
    /\ UNCHANGED <<data, isLoaded, fetchVars, uiVars, workerVars>>

NextQuery ==
    \/ LoadData
    \/ \E f \in Filters : CallGetUserStats(f)
    \/ Discard

SpecQuery == Init /\ [][NextQuery]_vars

CallGetAggregatedStats(filters) ==
    /\ call = Null
    /\ call' = [method |-> "getAggregatedStats", filters |-> filters]
    /\ result' = getAggregatedStats(data, filters)
    /\ UNCHANGED <<data, isLoaded, fetchVars, uiVars, workerVars>>

NextTotals ==
    \/ LoadData
    \/ \E f \in Filters : CallGetAggregatedStats(f)
    \/ Discard

SpecTotals == Init /\ [][NextTotals]_vars

\* topN: fewer series than the documents have users, or as many
TopNs == {1, 2}

\* One specific year is enough: Nows makes it the current year or a past one
TrendArgs ==
    [year : {"all", "2024"}, metric : MetricKinds, topN : TopNs,
     excludedUsers : {<<>>, <<"alice">>}]

\* new Date() when the page is used: April 2024 or January 2025
Nows == {[year |-> 2024, month |-> 3], [year |-> 2025, month |-> 0]}

\* The clock is read only for a specific year (lines 228-230)
CallGetTrendData(args, now) ==
    /\ call = Null
    /\ call' = [method |-> "getTrendData", args |-> args,
                now |-> IF args.year = "all" THEN Null ELSE now]
    /\ result' = getTrendData(data, args, now)
    /\ UNCHANGED <<data, isLoaded, fetchVars, uiVars, workerVars>>

NextTrend ==
    \/ LoadData
    \/ \E args \in TrendArgs, now \in Nows : CallGetTrendData(args, now)
    \/ Discard

SpecTrend == Init /\ [][NextTrend]_vars

CallGetAvailableYears ==
    /\ call = Null
    /\ call' = [method |-> "getAvailableYears"]
    /\ result' = getAvailableYears(data)
    /\ UNCHANGED <<data, isLoaded, fetchVars, uiVars, workerVars>>

\* A getAllUsernames that sorts the users of the document itself
CallGetAllUsernamesInPlace ==
    /\ call = Null
    /\ call' = [method |-> "getAllUsernames"]
    /\ result' = getAllUsernames(data)
    /\ data' = IF data = Null THEN data
               ELSE [data EXCEPT !.users =
                        [i \in 1..Len(data.users) |->
                            [k |-> getAllUsernames(data)[i],
                             v |-> ObjGet(data.users, getAllUsernames(data)[i])]]]
    /\ UNCHANGED <<isLoaded, fetchVars, uiVars, workerVars>>

CallGetAllUsernames ==
    /\ call = Null
    /\ call' = [method |-> "getAllUsernames"]
    /\ result' = getAllUsernames(data)
    /\ UNCHANGED <<data, isLoaded, fetchVars, uiVars, workerVars>>

NextLists ==
    \/ LoadData
    \/ CallGetAvailableYears
    \/ CallGetAllUsernames
    \/ Discard

SpecLists == Init /\ [][NextLists]_vars

\* Every query method, called one after the other in any order, for all
\* months and with nobody excluded
EngineFilters == {f \in Filters : f.month = "all" /\ f.excludedUsers = <<>>}

EngineTrendArgs == {a \in TrendArgs : a.topN = 2 /\ a.excludedUsers = <<>>}

NextEngine ==
    \/ LoadData
    \/ \E f \in EngineFilters : CallGetUserStats(f)
    \/ \E f \in EngineFilters : CallGetAggregatedStats(f)
    \/ \E args \in EngineTrendArgs, now \in Nows : CallGetTrendData(args, now)
    \/ CallGetAvailableYears
    \/ CallGetAllUsernames
    \/ Discard

SpecEngine == Init /\ [][NextEngine]_vars

\* The user summary the fetch script wrote before reviews were tracked
WithoutCodeReviews(userData) ==
    [avatar |-> userData.avatar, commits |-> userData.commits,
     pullRequests |-> userData.pullRequests]

\* The documents written then: no review was counted, no user has the key
LegacyDocuments ==
    {[users |-> [i \in 1..Len(d.users) |->
                    [k |-> d.users[i].k, v |-> WithoutCodeReviews(d.users[i].v)]]] :
        d \in {doc \in Documents :
                  \A i \in 1..Len(doc.users) : doc.users[i].v.codeReviews = <<>>}}

\* loadData when data/stats.json is such a document
LoadLegacyData ==
    /\ data = Null
    /\ call = Null
    /\ \E document \in LegacyDocuments : data' = document
    /\ isLoaded' = TRUE
    /\ UNCHANGED <<call, result, fetchVars, uiVars, workerVars>>

NextLegacy ==
    \/ LoadLegacyData
    \/ \E f \in Filters : CallGetUserStats(f)
    \/ \E f \in Filters : CallGetAggregatedStats(f)
    \/ \E args \in TrendArgs, now \in Nows : CallGetTrendData(args, now)
    \/ CallGetAvailableYears
    \/ CallGetAllUsernames
    \/ Discard

SpecLegacy == Init /\ [][NextLegacy]_vars

-----------------------------------------------------------------------------
(* App: the controller of the page *)

\* Array.prototype.indexOf, counted from 1; 0 where JavaScript gives -1
RECURSIVE IndexOf(_, _)
IndexOf(array, x) ==
    IF array = <<>> THEN 0
    ELSE IF Head(array) = x THEN 1
    ELSE LET rest == IndexOf(Tail(array), x)
         IN  IF rest = 0 THEN 0 ELSE rest + 1

\* array.splice(index, 1), with the index counted from 1
Splice(array, index) ==
    SubSeq(array, 1, index - 1) \o SubSeq(array, index + 1, Len(array))

\* renderUserCards reads user.commits, user.pullRequests and user.codeReviews
\* of every row and calls toLocaleString on each: a row without one of them
\* makes it throw a TypeError
CardsCanBeDrawn(stats) ==
    \A i \in 1..Len(stats) :
        {"commits", "pullRequests", "codeReviews"} \subseteq DOMAIN stats[i]

\* ChartManager.createLeaderboardChart: the labels of the bars, which are the
\* usernames a click on a bar can hand to onBarClick: data.slice(0, 20)
createLeaderboardChart(stats) ==
    LET topUsers == SliceTo(stats, 20)
    IN  [i \in 1..Len(topUsers) |-> topUsers[i].username]

\* render and what it leaves on the page: the leaderboard chart is replaced,
\* the trend section is shown or hidden, then the cards, the chips and the
\* KPIs are written unless renderUserCards has thrown. The content of the
\* trend chart and the animation of the KPIs are left out.
render(d, f, now, v) ==
    LET stats     == getUserStats(d, f)
        trendData == getTrendData(d, [year |-> f.year, metric |-> f.metric,
                                      topN |-> 10,
                                      excludedUsers |-> f.excludedUsers], now)
        drawn     == [v EXCEPT
                        !.chart = createLeaderboardChart(stats),
                        !.trendSection = IF f.month # "all" \/ trendData = Null
                                         THEN "none" ELSE "block"]
    IN  IF stats = <<>>
        THEN [view  |-> [drawn EXCEPT !.usersGrid = "No data available",
                                      !.cards = <<>>,
                                      !.chips = f.excludedUsers,
                                      !.kpis = getAggregatedStats(d, f)],
              threw |-> FALSE]
        ELSE IF CardsCanBeDrawn(stats)
        THEN [view  |-> [drawn EXCEPT !.usersGrid = "cards",
                                      !.cards = [i \in 1..Len(stats) |->
                                                    stats[i].username],
                                      !.chips = f.excludedUsers,
                                      !.kpis = getAggregatedStats(d, f)],
              threw |-> FALSE]
        ELSE [view |-> drawn, threw |-> TRUE]

\* The documents the page is served: written after at most one event
AppDocuments == {[users |-> UsersObject(us)] : us \in MapsAfter(1)}

MonthChoices == {"all", "03", "10"}

Usernames == {"dependabot[bot]", "alice", "bob"}

AllListeners == {"yearSelect", "monthSelect", "toggleBtns", "themechange"}

\* A start of init that registers the listeners before the document is loaded
StartInitBindingFirst ==
    /\ appPc = "constructed"
    /\ view' = [view EXCEPT !.usersGrid = "Loading statistics..."]
    /\ listeners' = AllListeners
    /\ appPc' = "loading"
    /\ UNCHANGED <<appFilters, today, last, isLoaded, queryVars, fetchVars, workerVars>>

\* DOMContentLoaded: init runs up to its await: showLoading, loadData started
StartInit ==
    /\ appPc = "constructed"
    /\ view' = [view EXCEPT !.usersGrid = "Loading statistics..."]
    /\ appPc' = "loading"
    /\ UNCHANGED <<appFilters, listeners, today, last, isLoaded, queryVars,
                   fetchVars, workerVars>>

\* populateYearSelect: the filters after it
PopulatedFilters(years, now) ==
    IF Includes(years, ToString(now.year))
    THEN [appFilters EXCEPT !.year = ToString(now.year)]
    ELSE appFilters

\* loadData succeeds and init goes on to its end: populateYearSelect,
\* bindEventHandlers, the themechange listener, the first render; a render
\* that throws is caught and the error message shown
LoadSucceeds ==
    /\ appPc = "loading"
    /\ \E document \in AppDocuments, now \in Nows :
          LET years    == getAvailableYears(document)
              f        == PopulatedFilters(years, now)
              selected == [view EXCEPT !.yearOptions = <<"all">> \o years,
                                       !.yearSelect = IF f.year = "all"
                                                      THEN view.yearSelect
                                                      ELSE f.year]
              r        == render(document, f, now, selected)
          IN  /\ data' = document
              /\ isLoaded' = TRUE
              /\ today' = now
              /\ appFilters' = f
              /\ view' = IF r.threw
                         THEN [r.view EXCEPT !.usersGrid = "Failed to load data"]
                         ELSE r.view
    /\ listeners' = AllListeners
    /\ appPc' = "ready"
    /\ last' = [event |-> "init", arg |-> "", rendered |-> TRUE]
    /\ UNCHANGED <<call, result, fetchVars, workerVars>>

\* loadData throws (the request fails, the response is not ok or is not JSON):
\* init shows the error message
LoadFails ==
    /\ appPc = "loading"
    /\ view' = [view EXCEPT !.usersGrid = "Failed to load data"]
    /\ appPc' = "failed"
    /\ last' = [event |-> "init", arg |-> "", rendered |-> FALSE]
    /\ UNCHANGED <<appFilters, listeners, today, isLoaded, queryVars, fetchVars,
                   workerVars>>

\* The user picks an option of the year select; the change listener, if bound
YearChange(year) ==
    /\ appPc # "constructed"
    /\ Includes(view.yearOptions, year)
    /\ IF "yearSelect" \in listeners
       THEN LET f == IF year = "all"
                     THEN [appFilters EXCEPT !.year = year, !.month = "all"]
                     ELSE [appFilters EXCEPT !.year = year]
                v == [view EXCEPT !.yearSelect = year,
                                  !.monthSelect = IF year = "all" THEN "all"
                                                  ELSE view.monthSelect]
            IN  /\ appFilters' = f
                /\ view' = render(data, f, today, v).view
                /\ last' = [event |-> "yearChange", arg |-> year, rendered |-> TRUE]
       ELSE /\ view' = [view EXCEPT !.yearSelect = year]
            /\ last' = [event |-> "yearChange", arg |-> year, rendered |-> FALSE]
            /\ UNCHANGED appFilters
    /\ UNCHANGED <<listeners, today, appPc, isLoaded, queryVars, fetchVars, workerVars>>

\* The user picks an option of the month select; the change listener, if bound
MonthChange(month) ==
    /\ appPc # "constructed"
    /\ IF "monthSelect" \in listeners
       THEN LET f == [appFilters EXCEPT !.month = month]
            IN  /\ appFilters' = f
                /\ view' = render(data, f, today,
                                  [view EXCEPT !.monthSelect = month]).view
                /\ last' = [event |-> "monthChange", arg |-> month, rendered |-> TRUE]
       ELSE /\ view' = [view EXCEPT !.monthSelect = month]
            /\ last' = [event |-> "monthChange", arg |-> month, rendered |-> FALSE]
            /\ UNCHANGED appFilters
    /\ UNCHANGED <<listeners, today, appPc, isLoaded, queryVars, fetchVars, workerVars>>

\* The user clicks a metric toggle button; the click listener, if bound
MetricClick(metric) ==
    /\ appPc # "constructed"
    /\ IF "toggleBtns" \in listeners
       THEN LET f == [appFilters EXCEPT !.metric = metric]
            IN  /\ appFilters' = f
                /\ view' = render(data, f, today,
                                  [view EXCEPT !.activeToggle = metric]).view
                /\ last' = [event |-> "metricClick", arg |-> metric, rendered |-> TRUE]
       ELSE /\ last' = [event |-> "metricClick", arg |-> metric, rendered |-> FALSE]
            /\ UNCHANGED <<appFilters, view>>
    /\ UNCHANGED <<listeners, today, appPc, isLoaded, queryVars, fetchVars, workerVars>>

\* ThemeManager.setTheme dispatches themechange; the listener of init, if added
ThemeChange ==
    /\ appPc # "constructed"
    /\ IF "themechange" \in listeners
       THEN /\ view' = render(data, appFilters, today, view).view
            /\ last' = [event |-> "themechange", arg |-> "", rendered |-> TRUE]
       ELSE /\ last' = [event |-> "themechange", arg |-> "", rendered |-> FALSE]
            /\ UNCHANGED view
    /\ UNCHANGED <<appFilters, listeners, today, appPc, isLoaded, queryVars,
                   fetchVars, workerVars>>

\* A click handler that always pushes the username
handleChartClickPushing(username) ==
    LET f == [appFilters EXCEPT !.excludedUsers = Append(@, username)]
    IN  /\ appFilters' = f
        /\ view' = render(data, f, today, view).view
        /\ last' = [event |-> "handleChartClick", arg |-> username, rendered |-> TRUE]
        /\ UNCHANGED <<listeners, today, appPc, isLoaded, queryVars, fetchVars,
                       workerVars>>

handleChartClick(username) ==
    LET index == IndexOf(appFilters.excludedUsers, username)
        f     == [appFilters EXCEPT !.excludedUsers =
                     IF index = 0 THEN Append(@, username) ELSE Splice(@, index)]
    IN  /\ appFilters' = f
        /\ view' = render(data, f, today, view).view
        /\ last' = [event |-> "handleChartClick", arg |-> username, rendered |-> TRUE]
        /\ UNCHANGED <<listeners, today, appPc, isLoaded, queryVars, fetchVars,
                       workerVars>>

removeExcludedUser(username) ==
    LET index == IndexOf(appFilters.excludedUsers, username)
    IN  /\ IF index # 0
           THEN LET f == [appFilters EXCEPT !.excludedUsers = Splice(@, index)]
                IN  /\ appFilters' = f
                    /\ view' = render(data, f, today, view).view
                    /\ last' = [event |-> "removeExcludedUser", arg |-> username,
                                rendered |-> TRUE]
           ELSE /\ last' = [event |-> "removeExcludedUser", arg |-> username,
                            rendered |-> FALSE]
                /\ UNCHANGED <<appFilters, view>>
        /\ UNCHANGED <<listeners, today, appPc, isLoaded, queryVars, fetchVars,
                       workerVars>>

\* The user clicks a bar of the leaderboard chart: onBarClick of render
BarClick(username) ==
    /\ Includes(view.chart, username)
    /\ handleChartClick(username)

\* The user clicks a chip of the excluded users: its onclick attribute
ChipClick(username) ==
    /\ Includes(view.chips, username)
    /\ removeExcludedUser(username)

\* The page and its user
NextApp ==
    \/ StartInit
    \/ LoadSucceeds
    \/ LoadFails
    \/ \E year \in {"all", "2023", "2024"} : YearChange(year)
    \/ \E month \in MonthChoices : MonthChange(month)
    \/ \E metric \in MetricKinds : MetricClick(metric)
    \/ ThemeChange
    \/ \E username \in Usernames : BarClick(username)
    \/ \E username \in Usernames : ChipClick(username)

SpecApp == Init /\ [][NextApp]_vars

\* handleChartClick and removeExcludedUser called in any order on the loaded
\* page, with any username
NextToggle ==
    \/ StartInit
    \/ LoadSucceeds
    \/ LoadFails
    \/ \E username \in Usernames : appPc = "ready" /\ handleChartClick(username)
    \/ \E username \in Usernames : appPc = "ready" /\ removeExcludedUser(username)

SpecToggle == Init /\ [][NextToggle]_vars

-----------------------------------------------------------------------------
(* sw.js: the service worker *)

\* ASSETS_TO_CACHE, cut down to one asset of the origin and one of a CDN
ASSETS_TO_CACHE == <<"./index.html", "https://cdn.jsdelivr.net/npm/chart.js">>

\* The requests of the page that reach the fetch listener
Requests == {"./index.html", "data/stats.json"}

\* fetch rejects
NetworkFailure == [failed |-> TRUE]

\* The responses the network gives once the worker is active
NetworkResponses ==
    [status : {200, 404}, type : {"basic", "cors"}, body : {"v2", "v3"}]

\* What the network gives for an asset while the worker installs
AssetResponse(request) ==
    [status |-> 200,
     type   |-> IF request = "./index.html" THEN "basic" ELSE "cors",
     body   |-> "v1"]

\* caches.open(name): the cache is created when there is none of that name
OpenCache(storage, name) ==
    IF ObjHas(storage, name) THEN storage ELSE MapSet(storage, name, <<>>)

\* cache.put(request, response) in the cache of that name
PutInto(storage, name, request, response) ==
    LET opened == OpenCache(storage, name)
    IN  MapSet(opened, name, MapSet(ObjGet(opened, name), request, response))

\* cache.addAll(requests) with every request answered
RECURSIVE AddAllAssets(_, _, _)
AddAllAssets(storage, name, requests) ==
    IF requests = <<>> THEN storage
    ELSE AddAllAssets(PutInto(storage, name, Head(requests),
                              AssetResponse(Head(requests))),
                      name, Tail(requests))

\* caches.match(request): the first cache, in the order of their creation,
\* that holds the request; undefined when none does
RECURSIVE CachesMatch(_, _)
CachesMatch(storage, request) ==
    IF storage = <<>> THEN Null
    ELSE IF ObjHas(Head(storage).v, request)
         THEN ObjGet(Head(storage).v, request)
         ELSE CachesMatch(Tail(storage), request)

\* A test that lets a response of any status into the cache
CacheableWhateverStatus(response) ==
    response.type = "basic"

\* fetch listener: !(!response || response.status !== 200 || response.type !== 'basic')
Cacheable(response) ==
    response.status = 200 /\ response.type = "basic"

\* install: caches.open(CACHE_NAME), then cache.addAll(ASSETS_TO_CACHE) succeeds
Install ==
    /\ swState = "parsed"
    /\ caches' = AddAllAssets(OpenCache(caches, CACHE_NAME), CACHE_NAME,
                              ASSETS_TO_CACHE)
    /\ swState' = "installed"
    /\ UNCHANGED <<puts, served, isLoaded, queryVars, fetchVars, uiVars>>

\* install: cache.addAll rejects, nothing is added and the worker is dropped
InstallFails ==
    /\ swState = "parsed"
    /\ caches' = OpenCache(caches, CACHE_NAME)
    /\ swState' = "redundant"
    /\ UNCHANGED <<puts, served, isLoaded, queryVars, fetchVars, uiVars>>

\* activate: every cache whose name is not CACHE_NAME is deleted
Activate ==
    /\ swState = "installed"
    /\ caches' = SelectSeq(caches, LAMBDA c : ~(c.k # CACHE_NAME))
    /\ swState' = "activated"
    /\ UNCHANGED <<puts, served, isLoaded, queryVars, fetchVars, uiVars>>

\* fetch: the network is asked first; its response is returned, and one more
\* cache.put is scheduled if it qualifies; the cache is asked when the network
\* fails. At most MaxPending cache.put calls wait at a time.
Fetch(request, outcome) ==
    /\ swState = "activated"
    /\ (outcome # NetworkFailure /\ Cacheable(outcome))
          => BagCardinality(puts) < MaxPending
    /\ IF outcome = NetworkFailure
       THEN /\ served' = [request |-> request, network |-> outcome,
                          response |-> CachesMatch(caches, request),
                          fromCache |-> TRUE, put |-> FALSE]
            /\ UNCHANGED puts
       ELSE IF Cacheable(outcome)
       THEN /\ served' = [request |-> request, network |-> outcome,
                          response |-> outcome,
                          fromCache |-> FALSE, put |-> TRUE]
            /\ puts' = puts (+) SetToBag({[request |-> request, response |-> outcome]})
       ELSE /\ served' = [request |-> request, network |-> outcome,
                          response |-> outcome,
                          fromCache |-> FALSE, put |-> FALSE]
            /\ UNCHANGED puts
    /\ UNCHANGED <<caches, swState, isLoaded, queryVars, fetchVars, uiVars>>

\* caches.open(CACHE_NAME).then(cache => cache.put(...)) of an earlier fetch runs
CachePut(p) ==
    /\ BagIn(p, puts)
    /\ caches' = PutInto(caches, CACHE_NAME, p.request, p.response)
    /\ puts' = puts (-) SetToBag({p})
    /\ UNCHANGED <<swState, served, isLoaded, queryVars, fetchVars, uiVars>>

NextWorker ==
    \/ Install
    \/ InstallFails
    \/ Activate
    \/ \E request \in Requests, outcome \in NetworkResponses \cup {NetworkFailure} :
          Fetch(request, outcome)
    \/ \E p \in BagToSet(puts) : CachePut(p)

SpecWorker == Init /\ [][NextWorker]_vars


-----------------------------------------------------------------------------
(* Reading the accumulator *)

LoginsOf(us) == {us[i].k : i \in 1..Len(us)}

SeriesOf(us, login, kind) ==
    IF ObjHas(us, login) /\ kind \in DOMAIN ObjGet(us, login)
    THEN ObjGet(us, login)[kind]
    ELSE <<>>

TotalOf(us, login, kind, y) ==
    LET s == SeriesOf(us, login, kind)
    IN  IF ObjHas(s, y) THEN ObjGet(s, y).total ELSE 0

MonthOf(us, login, kind, y, m) ==
    LET s == SeriesOf(us, login, kind)
    IN  IF ObjHas(s, y) /\ ObjHas(ObjGet(s, y).months, m)
        THEN ObjGet(ObjGet(s, y).months, m)
        ELSE 0

RECURSIVE SumOfValues(_)
SumOfValues(o) == IF o = <<>> THEN 0 ELSE Head(o).v + SumOfValues(Tail(o))

\* The keys under which a date is counted, written out
YearLabel(d) == CASE d.year = 2023 -> "2023" [] d.year = 2024 -> "2024"

MonthLabel(d) == CASE d.month = 2 -> "03" [] d.month = 9 -> "10"

YearLabels == {"2023", "2024"}

SeenOf(kind, login, d) == seen[kind][login][d]

\* Number of usable events of a kind by a login in a year
RECURSIVE SeenInYearOf(_, _, _, _)
SeenInYearOf(kind, login, y, ds) ==
    IF ds = {} THEN 0
    ELSE LET d == CHOOSE d \in ds : TRUE
         IN  (IF YearLabel(d) = y THEN SeenOf(kind, login, d) ELSE 0)
             + SeenInYearOf(kind, login, y, ds \ {d})

SeenInYear(kind, login, y) == SeenInYearOf(kind, login, y, Dates)

-----------------------------------------------------------------------------
(* C1 *)

\* C1: in every state during and after aggregation, every (user, metric, year)
\* bucket of the accumulator has total equal to the sum of its per-month counts.
BucketInvariant ==
    \A i \in 1..Len(users) :
        \A kind \in MetricKinds \cap DOMAIN users[i].v :
            \A j \in 1..Len(users[i].v[kind]) :
                users[i].v[kind][j].v.total = SumOfValues(users[i].v[kind][j].v.months)

\* A bucket that was incremented twice, in two months
BucketWitness ==
    \E i \in 1..Len(users) :
        \E kind \in MetricKinds :
            \E j \in 1..Len(users[i].v[kind]) :
                /\ users[i].v[kind][j].v.total = 2
                /\ Len(users[i].v[kind][j].v.months) = 2

-----------------------------------------------------------------------------
(* C2 *)

\* C2: every username key of the accumulator (and of the written document) maps
\* to a user summary that has all three metric series, whichever kind of event
\* created the user.
AllSeriesPresent ==
    /\ \A i \in 1..Len(users) : MetricKinds \subseteq DOMAIN users[i].v
    /\ output # Null =>
          \A i \in 1..Len(output.users) : MetricKinds \subseteq DOMAIN output.users[i].v

\* A user created by a review alone (on a pull request without a user), in the
\* written document
AllSeriesWitness ==
    /\ output # Null
    /\ \E j \in 1..Len(output.users) :
          /\ output.users[j].v.codeReviews # <<>>
          /\ output.users[j].v.commits = <<>>
          /\ output.users[j].v.pullRequests = <<>>

-----------------------------------------------------------------------------
(* C3 *)

CountsExactState ==
    /\ \A i \in 1..Len(users) : users[i].k \in Logins
    /\ \A login \in Logins, kind \in MetricKinds :
          /\ \A d \in Dates :
                MonthOf(users, login, kind, YearLabel(d), MonthLabel(d))
                    = SeenOf(kind, login, d)
          /\ \A y \in YearLabels :
                TotalOf(users, login, kind, y) = SeenInYear(kind, login, y)
          \* nothing is counted under a key that is the label of no date
          /\ \A j \in 1..Len(SeriesOf(users, login, kind)) :
                LET bucket == SeriesOf(users, login, kind)[j]
                IN  \A n \in 1..Len(bucket.v.months) :
                        \E d \in Dates : /\ YearLabel(d) = bucket.k
                                         /\ MonthLabel(d) = bucket.v.months[n].k

\* A series for which this step counted no event is left as it was
CountsFrameStep ==
    \A login \in Logins, kind \in MetricKinds :
        seen'[kind][login] = seen[kind][login]
        => SeriesOf(users', login, kind) = SeriesOf(users, login, kind)

\* C3: for every user, metric, year and month, months[m] is the number of
\* usable events of that kind by that user in that month and total the number
\* in that year; nothing is counted under any other key, and an event changes
\* no series other than the one it is counted in.
CountsExact == []CountsExactState /\ [][CountsFrameStep]_vars

\* Two commits of one user in one year, one in March and one in October
CountsWitness ==
    /\ SeenOf("commits", "alice", [year |-> 2024, month |-> 2]) = 1
    /\ SeenOf("commits", "alice", [year |-> 2024, month |-> 9]) = 1
    /\ TotalOf(users, "alice", "commits", "2024") = 2
    /\ MonthOf(users, "alice", "commits", "2024", "03") = 1

-----------------------------------------------------------------------------
(* C4 *)

Perms(s) == {[i \in 1..Len(s) |-> s[f[i]]] : f \in Permutations(1..Len(s))}

Orders == Perms(<<"commits", "pullRequests", "codeReviews">>)

FoldKind(us, kind, cs, ps, rs) ==
    CASE kind = "commits"      -> FoldCommits(us, cs)
      [] kind = "pullRequests" -> FoldPullRequests(us, ps)
      [] kind = "codeReviews"  -> FoldReviews(us, rs)

\* The three lists processed in the order ord
InOrder(us, ord, cs, ps, rs) ==
    FoldKind(FoldKind(FoldKind(us, ord[1], cs, ps, rs), ord[2], cs, ps, rs),
             ord[3], cs, ps, rs)

\* A series without the order of its month keys
SameSeries(s) ==
    [j \in 1..Len(s) |->
        <<s[j].k, s[j].v.total,
          {<<s[j].v.months[n].k, s[j].v.months[n].v>> : n \in 1..Len(s[j].v.months)}>>]

\* An accumulator without the order of its users, their avatars and the order
\* of the month keys
SameCounts(us) ==
    {<<us[i].k, [kind \in MetricKinds |-> SameSeries(SeriesOf(us, us[i].k, kind))]>> :
        i \in 1..Len(us)}

\* C4 as stated: the three lists of a run, aggregated in any permutation and in
\* any order of the lists, give the identical document (order of the users and
\* avatars included).
ReorderIdentical ==
    (Returning /\ entry = EmptyMap) =>
        \A ord \in Orders, cs \in Perms(commits), ps \in Perms(pullRequests),
           rs \in Perms(codeReviews) :
            UsersObject(InOrder(EmptyMap, ord, cs, ps, rs)) = UsersObject(users)

\* C4 amended: aggregated in any permutation and in any order of the lists, the
\* three lists give the same set of users and, for each user and metric, the
\* same years in the same order with the same total and the same per-month
\* counts.
ReorderSameCounts ==
    Returning =>
        \A ord \in Orders, cs \in Perms(commits), ps \in Perms(pullRequests),
           rs \in Perms(codeReviews) :
            SameCounts(InOrder(entry, ord, cs, ps, rs)) = SameCounts(users)

\* Two events of two users from an empty accumulator: the other order of the
\* events creates the users in the other order
ReorderWitness ==
    /\ Returning
    /\ entry = EmptyMap
    /\ Len(commits) + Len(pullRequests) + Len(codeReviews) = 2
    /\ Len(users) = 2

-----------------------------------------------------------------------------
(* C5 *)

\* C5 as stated: the avatar of a user summary is the avatar of the last event
\* processed for that username.
AvatarIsLast ==
    \A i \in 1..Len(users) : users[i].v.avatar = lastAvatar[users[i].k]

\* C5 amended: the avatar of a user summary is the avatar of the first event
\* processed for that username; later events never change it.
AvatarIsFirst ==
    \A i \in 1..Len(users) : users[i].v.avatar = firstAvatar[users[i].k]

\* A user whose events carried two different avatars
AvatarWitness ==
    \E i \in 1..Len(users) : firstAvatar[users[i].k] # lastAvatar[users[i].k]

-----------------------------------------------------------------------------
(* C6 *)

HasAuthor(commit) == commit.author # Null

HasUser(x) == x.user # Null

\* An iteration over an event without author or user changes nothing and the
\* loop goes on
DropStep ==
    /\ (pc = "aggregate" /\ ci <= Len(commits) /\ ~HasAuthor(commits[ci]))
          => (users' = users /\ ci' = ci + 1 /\ pc' = "aggregate")
    /\ (pc = "aggregate" /\ ci > Len(commits) /\ pi <= Len(pullRequests)
          /\ ~HasUser(pullRequests[pi]))
          => (users' = users /\ pi' = pi + 1 /\ pc' = "aggregate")
    /\ (pc = "aggregate" /\ ci > Len(commits) /\ pi > Len(pullRequests)
          /\ ri <= Len(codeReviews) /\ ~HasUser(codeReviews[ri]))
          => (users' = users /\ ri' = ri + 1 /\ pc' = "aggregate")

\* The call gives what it gives on the lists without those events
DropState ==
    /\ Returning =>
          users = aggregateStats(entry, SelectSeq(commits, HasAuthor),
                                 SelectSeq(pullRequests, HasUser),
                                 SelectSeq(codeReviews, HasUser))
    /\ AggReview(users, [user |-> Null, submitted_at |-> SomeDate]) = users

\* C6: a commit without author, a pull request without user and a review
\* without user leave the accumulator unchanged and do not stop the events
\* after them from being aggregated.
MalformedDropped == []DropState /\ [][DropStep]_vars

\* A commit without author followed by a commit that was counted
MalformedWitness ==
    /\ Returning
    /\ Len(commits) = 2
    /\ ~HasAuthor(commits[1])
    /\ HasAuthor(commits[2])
    /\ TotalOf(users, commits[2].author.login, "commits", YearLabel(commits[2].date))
          = TotalOf(entry, commits[2].author.login, "commits", YearLabel(commits[2].date)) + 1

-----------------------------------------------------------------------------
(* C7 *)

\* The call that is returning, made as two calls on the two parts of each list
InTwoCalls(i, j, k) ==
    aggregateStats(
        aggregateStats(entry, SubSeq(commits, 1, i), SubSeq(pullRequests, 1, j),
                       SubSeq(codeReviews, 1, k)),
        SubSeq(commits, i + 1, Len(commits)),
        SubSeq(pullRequests, j + 1, Len(pullRequests)),
        SubSeq(codeReviews, k + 1, Len(codeReviews)))

SplitState ==
    Returning =>
        \A i \in 0..Len(commits), j \in 0..Len(pullRequests), k \in 0..Len(codeReviews) :
            SameCounts(InTwoCalls(i, j, k)) = SameCounts(users)

\* No step removes a user, a bucket or a month entry, or decreases a counter
MonotoneStep ==
    \A i \in 1..Len(users) :
        /\ ObjHas(users', users[i].k)
        /\ \A kind \in MetricKinds \cap DOMAIN users[i].v :
              \A j \in 1..Len(users[i].v[kind]) :
                  LET bucket == users[i].v[kind][j]
                      series == SeriesOf(users', users[i].k, kind)
                  IN  /\ ObjHas(series, bucket.k)
                      /\ ObjGet(series, bucket.k).total >= bucket.v.total
                      /\ \A n \in 1..Len(bucket.v.months) :
                            /\ ObjHas(ObjGet(series, bucket.k).months, bucket.v.months[n].k)
                            /\ ObjGet(ObjGet(series, bucket.k).months, bucket.v.months[n].k)
                                  >= bucket.v.months[n].v

\* C7: one aggregateStats call on concatenated lists and one call per part on
\* the same accumulator give the same counts per user, metric, year and month;
\* no call decreases a counter or removes a user or a bucket.
IncrementalAccumulation == []SplitState /\ [][MonotoneStep]_vars

\* A call on an accumulator filled by an earlier call, counting for a user the
\* earlier call created
IncrementalWitness ==
    /\ Returning
    /\ entry # EmptyMap
    /\ Len(users) = Len(entry)
    /\ users # entry

-----------------------------------------------------------------------------
(* C8 *)

Qualifies(pr, review) ==
    /\ review.user # Null
    /\ review.state # "PENDING"
    /\ (pr.user = Null \/ review.user.login # pr.user.login)

\* The raw reviews that qualify, as <<pull request index, review index>>
Qualifying(prs) ==
    {pq \in (1..Len(prs)) \X (1..MaxEvents + 1) :
        /\ pq[2] <= Len(prs[pq[1]].reviews)
        /\ Qualifies(prs[pq[1]], prs[pq[1]].reviews[pq[2]])}

\* The handed reviews are the qualifying raw reviews, in the order of the pull
\* requests and of their responses
HandedAreQualifying(prs, handed) ==
    /\ Len(handed) = Cardinality(Qualifying(prs))
    /\ \A pq \in Qualifying(prs) :
          LET before == Cardinality({x \in Qualifying(prs) :
                            x[1] < pq[1] \/ (x[1] = pq[1] /\ x[2] < pq[2])})
              raw    == prs[pq[1]].reviews[pq[2]]
          IN  handed[before + 1] = [user |-> raw.user, submitted_at |-> raw.submitted_at]

ReviewTotal(us, login) ==
    SumOfValues([j \in 1..Len(SeriesOf(us, login, "codeReviews")) |->
                    [k |-> SeriesOf(us, login, "codeReviews")[j].k,
                     v |-> SeriesOf(us, login, "codeReviews")[j].v.total]])

\* C8: the reviews fetchReviews hands to aggregateStats are exactly the listed
\* reviews that have a user, are not PENDING and are not by the author of their
\* pull request; a call adds to the codeReviews totals of a login the number of
\* such reviews by that login, so no self-review is ever counted.
ReviewFilter ==
    pc = "aggregate" =>
        /\ HandedAreQualifying(pullRequests, codeReviews)
        /\ Returning =>
              \A login \in Logins :
                  ReviewTotal(users, login) - ReviewTotal(entry, login)
                      = Cardinality({pq \in Qualifying(pullRequests) :
                            pullRequests[pq[1]].reviews[pq[2]].user.login = login})

\* A submitted review by the author of the pull request, not counted
ReviewFilterWitness ==
    /\ Returning
    /\ \E p \in 1..Len(pullRequests) :
          /\ pullRequests[p].user # Null
          /\ \E q \in 1..Len(pullRequests[p].reviews) :
                /\ pullRequests[p].reviews[q].state = "APPROVED"
                /\ pullRequests[p].reviews[q].user # Null
                /\ pullRequests[p].reviews[q].user.login = pullRequests[p].user.login
                /\ ReviewTotal(users, pullRequests[p].user.login) = 0

-----------------------------------------------------------------------------
(* C9 *)

ExampleCommit ==
    [author |-> [login |-> "alice", avatar_url |-> "a1"],
     date |-> [year |-> 2024, month |-> 2]]

ExamplePullRequest ==
    [user |-> [login |-> "alice", avatar_url |-> "a1"],
     created_at |-> [year |-> 2024, month |-> 2],
     reviews |-> <<[user |-> [login |-> "bob", avatar_url |-> "b1"],
                    state |-> "APPROVED",
                    submitted_at |-> [year |-> 2024, month |-> 2]]>>]

ExampleUsers ==
    aggregateStats(EmptyMap, <<ExampleCommit>>, <<ExamplePullRequest>>,
                   fetchReviews(<<ExamplePullRequest>>))

ExampleDoc == [users |-> UsersObject(ExampleUsers)]

ExampleFilters ==
    [year |-> "2024", month |-> "all", metric |-> "commits", excludedUsers |-> <<>>]

\* C9: the document produced from one commit and one pull request by alice and
\* one review by bob on it, all in 2024-03, has alice.commits[2024].total = 1,
\* alice.commits[2024].months[03] = 1, alice.pullRequests[2024].total = 1 and
\* bob.codeReviews[2024].total = 1, and getUserStats on it with year 2024,
\* month all, metric commits returns exactly one row, alice with value 1.
RoundTripExample ==
    /\ TotalOf(ExampleDoc.users, "alice", "commits", "2024") = 1
    /\ MonthOf(ExampleDoc.users, "alice", "commits", "2024", "03") = 1
    /\ TotalOf(ExampleDoc.users, "alice", "pullRequests", "2024") = 1
    /\ TotalOf(ExampleDoc.users, "bob", "codeReviews", "2024") = 1
    /\ (data = ExampleDoc /\ call # Null /\ call.filters = ExampleFilters)
          => /\ Len(result) = 1
             /\ result[1].username = "alice"
             /\ result[1].value = 1

\* The example document is loaded and has been queried with the example filters
RoundTripWitness ==
    /\ data = ExampleDoc
    /\ call # Null
    /\ call.filters = ExampleFilters
    /\ result # <<>>

-----------------------------------------------------------------------------
(* C10 *)

\* What one year bucket of a series contributes for a month selection
BucketValue(series, y, month) ==
    IF ~ObjHas(series, y) THEN 0
    ELSE IF month = "all" THEN ObjGet(series, y).total
    ELSE IF ObjHas(ObjGet(series, y).months, month)
         THEN ObjGet(ObjGet(series, y).months, month)
         ELSE 0

RECURSIVE SumBuckets(_, _, _)
SumBuckets(series, ys, month) ==
    IF ys = {} THEN 0
    ELSE LET y == CHOOSE y \in ys : TRUE
         IN  BucketValue(series, y, month) + SumBuckets(series, ys \ {y}, month)

RankValue(series, year, month) ==
    IF year = "all" THEN SumBuckets(series, {series[i].k : i \in 1..Len(series)}, month)
    ELSE BucketValue(series, year, month)

RowsOf(username) == {i \in 1..Len(result) : result[i].username = username}

\* C10: for every user of the loaded document that is not excluded, the value
\* of the user's row is, with year all, the sum over the year buckets of the
\* selected metric of total (month all) or months[month] (one month), and with
\* one year, that bucket's total or months[month], 0 when the bucket or the month
\* entry is absent; a user whose value is 0 has no row.
RankValueDefinition ==
    (data # Null /\ call # Null /\ call.method = "getUserStats") =>
        \A u \in 1..Len(data.users) :
            ~Includes(call.filters.excludedUsers, data.users[u].k) =>
                LET expected == RankValue(data.users[u].v[call.filters.metric],
                                          call.filters.year, call.filters.month)
                IN  /\ \A i \in RowsOf(data.users[u].k) : result[i].value = expected
                    /\ expected > 0 => RowsOf(data.users[u].k) # {}

\* A query for one month over all years whose row sums that month over two year
\* buckets, one of which also counts another month
RankValueWitness ==
    /\ data # Null
    /\ call # Null
    /\ call.filters.year = "all"
    /\ call.filters.month = "03"
    /\ \E i \in 1..Len(result) :
          /\ result[i].value = 2
          /\ \E u \in 1..Len(data.users) :
                /\ data.users[u].k = result[i].username
                /\ Len(data.users[u].v[call.filters.metric]) = 2
                /\ \E b \in 1..2 :
                      Len(data.users[u].v[call.filters.metric][b].v.months) = 2

-----------------------------------------------------------------------------
(* C11 *)

RankCall == data # Null /\ call # Null /\ call.method = "getUserStats"

\* C11: getUserStats never returns a row of value 0, and a user of the document
\* has a row (exactly one) if and only if the user is not excluded and has a
\* positive value under the filter.
ZeroSuppression ==
    RankCall =>
        /\ \A i \in 1..Len(result) : result[i].value # 0
        /\ \A i \in 1..Len(result) : ObjHas(data.users, result[i].username)
        /\ \A u \in 1..Len(data.users) :
              LET expected == RankValue(data.users[u].v[call.filters.metric],
                                        call.filters.year, call.filters.month)
                  shown    == ~Includes(call.filters.excludedUsers, data.users[u].k)
                              /\ expected > 0
              IN  Cardinality(RowsOf(data.users[u].k)) = (IF shown THEN 1 ELSE 0)

\* Two users, neither excluded, only one of them with activity under the filter
ZeroSuppressionWitness ==
    /\ RankCall
    /\ call.filters.excludedUsers = <<>>
    /\ Len(data.users) = 2
    /\ Len(result) = 1

-----------------------------------------------------------------------------
(* C12 *)

\* C12: the rows getUserStats returns are in non-increasing order of value, and
\* rows of equal value are in the order in which the users mapping of the
\* document enumerates their usernames.
RankOrdering ==
    RankCall =>
        \A i, j \in 1..Len(result) :
            i < j =>
                /\ result[i].value >= result[j].value
                /\ result[i].value = result[j].value =>
                      ObjIdx(data.users, result[i].username)
                          < ObjIdx(data.users, result[j].username)

\* The sort moved the later user of the document in front of the earlier one
RankOrderingWitness ==
    /\ RankCall
    /\ Len(result) = 2
    /\ result[1].value > result[2].value
    /\ ObjIdx(data.users, result[1].username) > ObjIdx(data.users, result[2].username)

\* Two rows of equal value
RankTieReached ==
    /\ RankCall
    /\ Len(result) = 2
    /\ result[1].value = result[2].value

-----------------------------------------------------------------------------
(* C13 *)

TotalsCall == data # Null /\ call # Null /\ call.method = "getAggregatedStats"

RECURSIVE WithoutUser(_, _)
WithoutUser(rows, username) ==
    IF rows = <<>> THEN <<>>
    ELSE (IF Head(rows).username = username THEN <<>> ELSE <<Head(rows)>>)
         \o WithoutUser(Tail(rows), username)

\* Usernames one may add to excludedUsers: a user may have no row to remove
Excludable == Logins

AlsoExcluding(filters, username) ==
    [filters EXCEPT !.excludedUsers = Append(@, username)]

\* C13: with year, month and metric fixed, adding a username to excludedUsers
\* gives getAggregatedStats a contributors count that is not greater, and gives
\* getUserStats the rows of the former result without that user's row, the
\* other rows unchanged and in the same order.
FilterMonotonicity ==
    TotalsCall =>
        LET rows == getUserStats(data, call.filters)
        IN  \A username \in Excludable :
                /\ getAggregatedStats(data, AlsoExcluding(call.filters, username)).contributors
                       <= result.contributors
                /\ getUserStats(data, AlsoExcluding(call.filters, username))
                       = WithoutUser(rows, username)

\* Two contributors with nobody excluded: excluding either user leaves the other
FilterMonotonicityWitness ==
    /\ TotalsCall
    /\ call.filters.excludedUsers = <<>>
    /\ result.contributors = 2
    /\ \A username \in Logins :
          Len(getUserStats(data, AlsoExcluding(call.filters, username))) = 1

-----
(* C14 *)

UserValue(username, metric) ==
    RankValue(ObjGet(data.users, username)[metric], call.filters.year, call.filters.month)

\* C14: every row getUserStats returns carries the user's totals of commits,
\* pullRequests and codeReviews under the year and month of the call, the field
\* of the selected metric being equal to the row's value.
RowsCarryAllMetrics ==
    RankCall =>
        \A i \in 1..Len(result) :
            /\ MetricKinds \subseteq DOMAIN result[i]
            /\ \A kind \in MetricKinds :
                  result[i][kind] = UserValue(result[i].username, kind)
            /\ result[i][call.filters.metric] = result[i].value

-----------------------------------------------------------------------------
(* C15 *)

RECURSIVE SumField(_, _)
SumField(rows, field) ==
    IF rows = <<>> THEN 0 ELSE Head(rows)[field] + SumField(Tail(rows), field)

RECURSIVE SumUserValues(_, _)
SumUserValues(rows, kind) ==
    IF rows = <<>> THEN 0
    ELSE UserValue(Head(rows).username, kind) + SumUserValues(Tail(rows), kind)

\* C15: getAggregatedStats returns commits, pullRequests and codeReviews, each
\* the sum over the rows getUserStats returns for the same filters of the
\* user's total of that kind, and contributors, the number of those rows.
TotalsFromRank ==
    TotalsCall =>
        LET rows == getUserStats(data, call.filters)
        IN  /\ result.contributors = Len(rows)
            /\ result.commits = SumField(rows, "commits")
            /\ result.pullRequests = SumField(rows, "pullRequests")
            /\ "codeReviews" \in DOMAIN result
            /\ result.codeReviews = SumUserValues(rows, "codeReviews")

-----------------------------------------------------------------------------
(* C16 *)

\* C16: what getAggregatedStats returns depends on year, month and
\* excludedUsers only: with another metric in the filters, commits,
\* pullRequests and contributors are the same.
TotalsIgnoreMetric ==
    TotalsCall =>
        \A metric \in MetricKinds :
            LET other == getAggregatedStats(data, [call.filters EXCEPT !.metric = metric])
            IN  /\ other.commits = result.commits
                /\ other.pullRequests = result.pullRequests
                /\ other.contributors = result.contributors

-----------------------------------------------------------------------------
(* C17 *)

TrendCall == data # Null /\ call # Null /\ call.method = "getTrendData"

RankForTrend ==
    getUserStats(data, [year |-> call.args.year, month |-> "all",
                        metric |-> call.args.metric,
                        excludedUsers |-> call.args.excludedUsers])

Min(a, b) == IF a < b THEN a ELSE b

\* C17: the series getTrendData returns are, in order, the first
\* min(topN, number of rows) rows of getUserStats called with the year, month
\* all, the metric and the excluded users of the call; no series is an excluded
\* user or a user of value 0 under that filter, and there are at most topN.
TrendSeriesSelection ==
    TrendCall =>
        LET rows == RankForTrend
        IN  /\ Len(result.datasets) = Min(call.args.topN, Len(rows))
            /\ Len(result.datasets) <= call.args.topN
            /\ \A i \in 1..Len(result.datasets) :
                  /\ result.datasets[i].label = rows[i].username
                  /\ ~Includes(call.args.excludedUsers, result.datasets[i].label)
                  /\ RankValue(ObjGet(data.users, result.datasets[i].label)[call.args.metric],
                               call.args.year, "all") > 0

\* Two users rank, topN is 1 and the only series is the first row, which is not
\* the first user of the document
TrendSeriesWitness ==
    /\ TrendCall
    /\ call.args.topN = 1
    /\ Len(RankForTrend) = 2
    /\ Len(result.datasets) = 1
    /\ result.datasets[1].label = data.users[2].k

-----------------------------------------------------------------------------
(* C18 *)

\* C18: for year all, the labels getTrendData returns are year keys in strictly
\* ascending order, whatever the order in which the document holds them.
TrendYearsAscending ==
    (TrendCall /\ call.args.year = "all") =>
        \A i, j \in 1..Len(result.labels) :
            i < j => StrToNat(result.labels[i]) < StrToNat(result.labels[j])

\* Two labels, from a document whose first user has the later year only
TrendYearsWitness ==
    /\ TrendCall
    /\ call.args.year = "all"
    /\ result.labels = <<"2023", "2024">>
    /\ ObjKeys(data.users[1].v.commits) = <<"2024">>
    /\ data.users[1].v.pullRequests = <<>>

-----------------------------------------------------------------------------
(* C19 *)

\* The years present anywhere in the loaded document
YearsOfDocument ==
    UNION {{data.users[u].v[kind][b].k : b \in 1..Len(data.users[u].v[kind])} :
              <<u, kind>> \in (1..Len(data.users)) \X MetricKinds}

\* C19: for year all, getTrendData yields one label per year present anywhere
\* in the document, in commits, pullRequests or codeReviews of any user, and
\* every series has one point per label, the user's total for that year under
\* the metric, 0 if absent.
TrendCoversAllYears ==
    (TrendCall /\ call.args.year = "all") =>
        /\ {result.labels[i] : i \in 1..Len(result.labels)} = YearsOfDocument
        /\ Len(result.labels) = Cardinality(YearsOfDocument)
        /\ \A s \in 1..Len(result.datasets) :
              /\ Len(result.datasets[s].data) = Len(result.labels)
              /\ \A i \in 1..Len(result.labels) :
                    result.datasets[s].data[i]
                        = BucketValue(ObjGet(data.users, result.datasets[s].label)
                                          [call.args.metric],
                                      result.labels[i], "all")

-----------------------------------------------------------------------------
(* C20 *)

\* The number of months of a year that have begun at a date
MonthsBegun(year, now) ==
    IF StrToNat(year) = now.year THEN now.month + 1 ELSE 12

\* The key of the i-th month of a year
NthMonthKey == [i \in 1..12 |-> PadStart(ToString(i), 2, "0")]

\* C20: for a specific year, getTrendData returns K labels, the first K
\* abbreviated month names, K being 12 unless the year is the current year and
\* then the number of the current month; every series has K points, point i
\* being months[i-th month key] of the user's bucket of that year and metric,
\* 0 if absent.
TrendSpecificYear ==
    (TrendCall /\ call.args.year # "all") =>
        LET K == MonthsBegun(call.args.year, call.now)
        IN  /\ Len(result.labels) = K
            /\ \A i \in 1..K : result.labels[i] = MonthNames[i]
            /\ \A s \in 1..Len(result.datasets) :
                  LET series == ObjGet(data.users, result.datasets[s].label)[call.args.metric]
                  IN  /\ Len(result.datasets[s].data) = K
                      /\ \A i \in 1..K :
                            result.datasets[s].data[i]
                                = BucketValue(series, call.args.year, NthMonthKey[i])

\* In April of the year asked for: four labels, Jan to Apr, and a series whose
\* March point is counted while its October count is not shown
TrendSpecificYearWitness ==
    /\ TrendCall
    /\ call.args.year = "2024"
    /\ call.now = [year |-> 2024, month |-> 3]
    /\ result.labels = <<"Jan", "Feb", "Mar", "Apr">>
    /\ \E s \in 1..Len(result.datasets) :
          /\ result.datasets[s].data[3] > 0
          /\ BucketValue(ObjGet(data.users, result.datasets[s].label)[call.args.metric],
                         "2024", "10") > 0

\* A past year: twelve labels
TrendFullYearReached ==
    /\ TrendCall
    /\ call.args.year = "2024"
    /\ call.now = [year |-> 2025, month |-> 0]
    /\ Len(result.labels) = 12
    /\ \E s \in 1..Len(result.datasets) : result.datasets[s].data[3] > 0

-----------------------------------------------------------------------------
(* C21 *)

\* C21: when a document is loaded and there are no top users (no user, every
\* user excluded, or no user of positive value under the filter), getTrendData
\* returns the distinguished no-data result, not labels with an empty list of
\* series.
TrendNoDataSentinel ==
    (TrendCall /\ RankForTrend = <<>>) => result = Null

-----------------------------------------------------------------------------
(* C22 *)

YearsCall == data # Null /\ call # Null /\ call.method = "getAvailableYears"

\* The year keys of the commits and pullRequests series of the loaded document
CommitAndPullRequestYears ==
    UNION {{data.users[u].v[kind][b].k : b \in 1..Len(data.users[u].v[kind])} :
              <<u, kind>> \in (1..Len(data.users)) \X {"commits", "pullRequests"}}

\* C22: getAvailableYears returns, without duplicates and in descending order,
\* exactly the year keys that appear in some user's commits or pullRequests
\* series; a year that appears in codeReviews series only is not returned.
AvailableYears ==
    YearsCall =>
        /\ {result[i] : i \in 1..Len(result)} = CommitAndPullRequestYears
        /\ \A i, j \in 1..Len(result) :
              i < j => StrToNat(result[i]) > StrToNat(result[j])
        /\ \A y \in YearsOfDocument \ CommitAndPullRequestYears :
              ~Includes(result, y)

\* Both years returned, the later first, each held by more than one series, and
\* a document whose reviews are all in a year that is not returned
AvailableYearsWitness ==
    /\ YearsCall
    /\ result = <<"2024", "2023">>
    /\ \E u \in 1..Len(data.users) :
          /\ ObjHas(data.users[u].v.commits, "2024")
          /\ ObjHas(data.users[u].v.pullRequests, "2024")

\* A year held by reviews only is left out
ReviewOnlyYearReached ==
    /\ YearsCall
    /\ result = <<"2024">>
    /\ "2023" \in YearsOfDocument

-----------------------------------------------------------------------------
(* C23 *)

\* C23: no call of getUserStats, getAggregatedStats, getTrendData,
\* getAvailableYears or getAllUsernames, in any sequence, changes the loaded
\* document, the order of its users and year keys included.
QueriesReadOnly == [][data # Null => data' = data]_vars

\* getAllUsernames has returned the usernames sorted while the document still
\* holds them in another order
QueriesReadOnlyWitness ==
    /\ data # Null
    /\ call # Null
    /\ call.method = "getAllUsernames"
    /\ result = <<"alice", "bob">>
    /\ ObjKeys(data.users) = <<"bob", "alice">>

-----------------------------------------------------------------------------
(* C24 *)

\* What the method being called returns on a document
AnswerOn(d) ==
    CASE call.method = "getUserStats" -> getUserStats(d, call.filters)
      [] call.method = "getAggregatedStats" -> getAggregatedStats(d, call.filters)
      [] call.method = "getTrendData" -> getTrendData(d, call.args, call.now)
      [] call.method = "getAvailableYears" -> getAvailableYears(d)
      [] call.method = "getAllUsernames" -> getAllUsernames(d)

\* The document of a run that found no event
EmptyDocument == [users |-> UsersObject(EmptyMap)]

\* C24: a query made before a document is loaded signals that no data is
\* loaded: what it returns is not an answer the same query gives on a loaded
\* document, such as the valid empty answer on a document without users.
MissingDocumentSignalled ==
    (data = Null /\ call # Null) => result # AnswerOn(EmptyDocument)

-----------------------------------------------------------------------------
(* C25 *)

\* The document with an empty codeReviews series given to the users without one
WithEmptyReviews(d) ==
    [users |-> [i \in 1..Len(d.users) |->
                   [k |-> d.users[i].k,
                    v |-> IF "codeReviews" \in DOMAIN d.users[i].v THEN d.users[i].v
                          ELSE [avatar       |-> d.users[i].v.avatar,
                                commits      |-> d.users[i].v.commits,
                                pullRequests |-> d.users[i].v.pullRequests,
                                codeReviews  |-> <<>>]]]]

\* C25: on a document whose user entries have no codeReviews key, every query
\* answers as if the key held an empty series: getUserStats with metric
\* codeReviews returns no row for such a user, getTrendData no point, and no
\* query fails.
ForwardCompatible ==
    (data # Null /\ call # Null) =>
        /\ result = AnswerOn(WithEmptyReviews(data))
        /\ (call.method = "getUserStats" /\ call.filters.metric = "codeReviews")
              => result = <<>>
        /\ (call.method = "getTrendData" /\ call.args.metric = "codeReviews")
              => result.datasets = <<>>

\* Two users without the key, ranked by codeReviews: no row, though they have
\* commits or pull requests in the period
ForwardCompatibleWitness ==
    /\ data # Null
    /\ Len(data.users) = 2
    /\ \A i \in 1..2 : "codeReviews" \notin DOMAIN data.users[i].v
    /\ call # Null
    /\ call.method = "getUserStats"
    /\ call.filters.metric = "codeReviews"
    /\ result = <<>>
    /\ getUserStats(data, [call.filters EXCEPT !.metric = "commits"]) # <<>>

-----------------------------------------------------------------------------
(* C26 *)

RECURSIVE SumPoints(_)
SumPoints(points) ==
    IF points = <<>> THEN 0 ELSE Head(points) + SumPoints(Tail(points))

\* The call asks for a year other than the one of the clock
PastYearCall ==
    /\ TrendCall
    /\ call.args.year # "all"
    /\ StrToNat(call.args.year) # call.now.year

\* Every series of the result sums to the value of its user's row
SeriesSumToRank ==
    LET rows == RankForTrend
    IN  \A i \in 1..Len(result.datasets) :
            SumPoints(result.datasets[i].data) = rows[i].value

\* C26: the points of each series getTrendData returns sum to the value of the
\* user's row in getUserStats for the same year, month all, metric and excluded
\* users, both for year all (yearly points) and for a year that is not the
\* current one (twelve monthly points).
TrendRankConsistency ==
    (TrendCall /\ (call.args.year = "all" \/ PastYearCall)) => SeriesSumToRank

\* The part of C26 about a past year
PastYearConsistency == PastYearCall => SeriesSumToRank

-----------------------------------------------------------------------------
(* C27 *)

Elements(array) == {array[i] : i \in 1..Len(array)}

Distinct(array) ==
    \A i, j \in 1..Len(array) : i # j => array[i] # array[j]

\* What a call of handleChartClick or removeExcludedUser must do to the
\* excluded users, told by the event the step records
ToggleStep ==
    LET before == Elements(appFilters.excludedUsers)
        after  == Elements(appFilters'.excludedUsers)
        u      == last'.arg
    IN  /\ last'.event = "handleChartClick" =>
              /\ u \notin before => after = before \cup {u}
              /\ u \in before => after = before \ {u}
              /\ last'.rendered
        /\ (last'.event = "removeExcludedUser" /\ u \in before) =>
              /\ after = before \ {u}
              /\ last'.rendered
        /\ (last'.event = "removeExcludedUser" /\ u \notin before) =>
              /\ appFilters' = appFilters
              /\ view' = view
              /\ ~last'.rendered

\* C27: from the default list [dependabot[bot]], whatever handleChartClick and
\* removeExcludedUser calls are made, the excluded users hold no username
\* twice; handleChartClick(u) adds u when it is absent and removes it when it
\* is present, so that two calls in a row restore the set; removeExcludedUser(u)
\* for an absent u changes nothing and does not render.
ExclusionToggle ==
    /\ [](Distinct(appFilters.excludedUsers))
    /\ [][ToggleStep]_vars

\* dependabot[bot] was taken off the list, alice and bob were added by
\* handleChartClick, and removing dependabot[bot] again did nothing
ExclusionToggleWitness ==
    /\ last.event = "removeExcludedUser"
    /\ last.arg = "dependabot[bot]"
    /\ ~last.rendered
    /\ Elements(appFilters.excludedUsers) = {"alice", "bob"}

-----------------------------------------------------------------------------
(* C28 *)

\* C28: in every state of the filters reached by year-select, month-select,
\* metric-toggle and exclusion events after initialization, the year filter
\* 'all' comes with the month filter 'all'.
AllTimeForcesAllMonths ==
    appPc = "ready" => (appFilters.year = "all" => appFilters.month = "all")

-----------------------------------------------------------------------------
(* C29 *)

\* C29: nothing renders and no listener is registered before loadData has
\* completed successfully; when loadData fails the error message is shown,
\* isLoaded stays false and no later event of the page or of the theme renders.
LoadBeforeRender ==
    /\ last.rendered => (isLoaded /\ data # Null)
    /\ listeners # {} => (isLoaded /\ data # Null)
    /\ appPc = "failed" =>
          /\ ~isLoaded
          /\ data = Null
          /\ view.usersGrid = "Failed to load data"
          /\ listeners = {}
          /\ ~last.rendered

\* The theme was changed after loadData had failed, and nothing was rendered
LoadBeforeRenderWitness ==
    /\ appPc = "failed"
    /\ last.event = "themechange"
    /\ ~last.rendered
    /\ view.chart = <<>>
    /\ view.monthSelect = "03"

-----------------------------------------------------------------------------
(* C30 *)

\* The responses install put into the cache
InstalledResponses == {AssetResponse(ASSETS_TO_CACHE[i]) : i \in 1..Len(ASSETS_TO_CACHE)}

\* C30: for every fetch event a cached response is served only when the
\* network has failed; when the network answers, its response is the one
\* returned, and it goes to the cache only if it has status 200 and type
\* basic; once the worker is activated no cache of another name than
\* CACHE_NAME is left.
NetworkFirst ==
    /\ served # Null =>
          /\ served.fromCache => served.network = NetworkFailure
          /\ served.network # NetworkFailure =>
                (served.response = served.network /\ ~served.fromCache)
          /\ served.put =>
                /\ served.network # NetworkFailure
                /\ served.network.status = 200
                /\ served.network.type = "basic"
    /\ \A p \in BagToSet(puts) : p.response.status = 200 /\ p.response.type = "basic"
    /\ swState = "activated" =>
          /\ \A i \in 1..Len(caches) : caches[i].k = CACHE_NAME
          /\ \A i \in 1..Len(caches) : \A e \in 1..Len(caches[i].v) :
                \/ caches[i].v[e].v \in InstalledResponses
                \/ (caches[i].v[e].v.status = 200 /\ caches[i].v[e].v.type = "basic")

\* The network fails and the response served is one an earlier fetch of the
\* same request had put into the cache, the earlier cache being gone
NetworkFirstWitness ==
    /\ swState = "activated"
    /\ served # Null
    /\ served.network = NetworkFailure
    /\ served.request = "data/stats.json"
    /\ served.response # Null
    /\ served.response.body = "v3"
    /\ Len(caches) = 1

====
